---------------------------- MODULE Spec2Model ----------------------------
(***************************************************************************)
(* V3 Bordeaux monitor: the Streamlit dashboard (app.py) with its          *)
(* session history and two-point flux estimation, and the SQLite collector *)
(* (enregistreur.py).                                                      *)
(*                                                                         *)
(* Time is counted in seconds.  A DataFrame is a sequence of rows; only    *)
(* the columns that the flux estimation reads (Station, Total) are kept.   *)
(* st.session_state.data_history is a sequence; the key being absent and   *)
(* the list being empty are the same value <<>>, since every read in       *)
(* app.py tests "key present and len(...) > 0 / >= 2".                     *)
(***************************************************************************)
EXTENDS Integers, Sequences, FiniteSets, TLC

VARIABLES
    now,            \* wall clock, seconds
    tieBreak,       \* how this build's quicksort orders equal keys
    cache,          \* st.cache_data entry of get_live_data: [valid, at, df]
    data_history,   \* st.session_state.data_history: Seq([timestamp, data])
    df_live,        \* result of get_live_data() in the latest script run
    estimated,      \* TRUE iff the latest run called calculate_realtime_flux
    flux_df,        \* its result (sequence of Movement Records)
    message,        \* what tab2 showed: "metrics", "no_movement", "collecting", "no_data", "none"
    metrics,        \* tab2 flux metrics of the latest run
    chart_data,     \* tab2 top-20 chart rows of the latest run
    caption,        \* what the tab2 history caption read: [shown, nb_mesures, oldest, newest]
    run_at,         \* clock value of the latest script run
    pc,             \* collector process position
    mode,           \* collector mode: "once" or "loop"
    table_exists,   \* stations_history has been created
    db,             \* committed rows of stations_history
    response,       \* what the latest upstream GET of the collector returned
    cycles          \* number of save_data calls so far

dashVars == <<tieBreak, cache, data_history, df_live, estimated, flux_df,
              message, metrics, chart_data, caption, run_at>>
collVars == <<pc, mode, table_exists, db, response, cycles>>
vars == <<now, dashVars, collVars>>

---------------------------------------------------------------------------
(* Bounds of the model *)
MaxTime == 5460         \* the clock stops advancing here
MaxHistory == 3         \* script runs stop appending at this history length
MaxCycles == 3          \* collector cycles explored

(* Program constants *)
Horizon == 3600         \* timedelta(hours=1)
CacheTtl == 60          \* st.cache_data(ttl=60)
INTERVALLE == 60
TopN == 20              \* flux_df.head(20)

TickSteps == {1800, 3660}

---------------------------------------------------------------------------
(* Raw upstream values.  A JSON property is an integer, absent from the    *)
(* object, or something int() rejects (null, free text).                   *)
Int_(n) == [k |-> "int", v |-> n]
AbsentNum == [k |-> "absent", v |-> 0]
BadNum == [k |-> "text", v |-> 0]
AbsentStr == "<absent>"

\* dict.get(key, default), for a numeric and for a text property
GetNum(field, default) == IF field = AbsentNum THEN default ELSE field
GetStr(field, default) == IF field = AbsentStr THEN default ELSE field

\* int(x) raises ValueError / TypeError
IntRaises(x) == x.k = "text"

Feature(nom, nbvelos, nbplaces, etat) ==
    [nom |-> nom, nbvelos |-> nbvelos, nbelec |-> Int_(0), nbclassiq |-> nbvelos,
     nbplaces |-> nbplaces, etat |-> etat]

\* Upstream GeoJSON bodies explored (data['features'])
FeedBase == <<Feature("B", Int_(1), Int_(3), "CONNECTEE"), Feature("A", Int_(1), Int_(3), "CONNECTEE")>>
FeedDip == <<Feature("B", Int_(1), Int_(3), "CONNECTEE"), Feature("A", AbsentNum, Int_(4), "CONNECTEE")>>
FeedUp == <<Feature("B", Int_(2), Int_(2), "CONNECTEE"), Feature("A", Int_(3), Int_(1), "CONNECTEE")>>
FeedOnlyA == <<Feature("A", Int_(2), Int_(2), "CONNECTEE"), Feature("B", Int_(0), AbsentNum, AbsentStr)>>
FeedDup == <<Feature(AbsentStr, Int_(1), Int_(3), "CONNECTEE"), Feature(AbsentStr, Int_(2), Int_(2), "CONNECTEE")>>
FeedBad == <<Feature("B", Int_(1), Int_(3), "CONNECTEE"), Feature("A", BadNum, Int_(3), "CONNECTEE")>>
Feeds == {FeedBase, FeedDip, FeedUp, FeedOnlyA, FeedDup, FeedBad}

\* requests.get / raise_for_status / response.json() raising
FetchFailures == {"unreachable", "http_error", "bad_json"}

\* What one GET can come to: a parsed body, or one of the failures
Parsed(features) == [status |-> "ok", features |-> features]
Failed(kind) == [status |-> kind, features |-> <<>>]
Outcomes == {Parsed(f) : f \in Feeds} \cup {Failed(k) : k \in FetchFailures}

EmptyDF == <<>>

\* One iteration of the for loop of get_live_data: the row appended, if any
LiveRow(s) ==
    LET nom == GetStr(s.nom, "Inconnue")
        total == GetNum(s.nbvelos, Int_(0)).v
        places == GetNum(s.nbplaces, Int_(0)).v
        etat == GetStr(s.etat, "DECONNECTEE")
    IN  IF etat = "CONNECTEE" \/ total > 0 \/ places > 0
        THEN <<[Station |-> nom, Total |-> total]>>
        ELSE <<>>

\* int() raises on one of the four numeric properties of the record
RecordRaises(s) ==
    \/ IntRaises(GetNum(s.nbvelos, Int_(0)))
    \/ IntRaises(GetNum(s.nbelec, Int_(0)))
    \/ IntRaises(GetNum(s.nbclassiq, Int_(0)))
    \/ IntRaises(GetNum(s.nbplaces, Int_(0)))

RECURSIVE ProcessFeatures(_)
ProcessFeatures(stations) ==
    IF stations = <<>> THEN <<>>
    ELSE LiveRow(Head(stations)) \o ProcessFeatures(Tail(stations))

\* Body of get_live_data on a fetch outcome: one raising record sends the
\* whole call to the except branch, which returns an empty DataFrame
FetchLiveData(outcome) ==
    IF outcome.status \in FetchFailures THEN EmptyDF
    ELSE IF \E i \in 1..Len(outcome.features) : RecordRaises(outcome.features[i]) THEN EmptyDF
    ELSE ProcessFeatures(outcome.features)

---------------------------------------------------------------------------
(* calculate_realtime_flux *)

\* st.session_state.data_history.append({'timestamp': now, 'data': ...})
AppendBatch(h, t, df) == Append(h, [timestamp |-> t, data |-> df])

\* [h for h in data_history if h['timestamp'] > one_hour_ago]
PruneHistory(h, t) == SelectSeq(h, LAMBDA b : b.timestamp > t - Horizon)

\* len(data_history) < 2: not enough data
TooShort(h) == Len(h) < 2

FirstDataPrevious(h) == h[Len(h) - 1].data
FirstData(h) == h[1].data
LastData(h) == h[Len(h)].data

\* Lexicographic order of the station names that occur
NameOrder == <<"A", "B", "Inconnue">>

StationsOf(df) == {df[i].Station : i \in 1..Len(df)}
RowsOf(df, k) == SelectSeq(df, LAMBDA r : r.Station = k)

NaN == [nan |-> TRUE, v |-> 0]
Cell(n) == [nan |-> FALSE, v |-> n]

\* Rows that the outer join yields for one key: the cross product of the
\* left and right rows holding it (left-major), NaN where a side has none
MergeKey(left, right, k) ==
    LET l == RowsOf(left, k)
        r == RowsOf(right, k)
    IN  IF r = <<>>
        THEN [i \in 1..Len(l) |-> [Station |-> k, Total_curr |-> Cell(l[i].Total), Total_prev |-> NaN]]
        ELSE IF l = <<>>
        THEN [j \in 1..Len(r) |-> [Station |-> k, Total_curr |-> NaN, Total_prev |-> Cell(r[j].Total)]]
        ELSE [n \in 1..(Len(l) * Len(r)) |->
                [Station |-> k,
                 Total_curr |-> Cell(l[((n - 1) \div Len(r)) + 1].Total),
                 Total_prev |-> Cell(r[((n - 1) % Len(r)) + 1].Total)]]

RECURSIVE MergeFrom(_, _, _)
MergeFrom(left, right, rank) ==
    IF rank > Len(NameOrder) THEN <<>>
    ELSE MergeKey(left, right, NameOrder[rank]) \o MergeFrom(left, right, rank + 1)

\* last_data.merge(first_data, on='Station', how='outer'): the join keys
\* come out in lexicographic order
MergeOuter(left, right) == MergeFrom(left, right, 1)

\* .fillna(0)
FillNa(c, d) == IF c.nan THEN d ELSE c.v

Abs(x) == IF x < 0 THEN -x ELSE x

\* lines 167-172: fill the NaN, then Mouvement and Delta
WithDelta(m) ==
    LET curr == FillNa(m.Total_curr, 0)
        prev == FillNa(m.Total_prev, 0)
    IN  [Station |-> m.Station, Total_prev |-> prev, Total_curr |-> curr,
         Mouvement |-> Abs(curr - prev), Delta |-> curr - prev]

\* merged[merged['Mouvement'] > 0]
KeepsZeroMovement(r) == r.Mouvement >= 0
HasMoved(r) == r.Mouvement > 0

\* lambda x: 'Depot' if x > 0 else 'Prise'
TypeOf(delta) == IF delta > 0 THEN "Depot" ELSE "Prise"

WithType(r) ==
    [Station |-> r.Station, Type |-> TypeOf(r.Delta), Mouvement |-> r.Mouvement,
     Total_prev |-> r.Total_prev, Total_curr |-> r.Total_curr, Delta |-> r.Delta]

\* Insertion of one row into rows already sorted by Mouvement descending.
\* Among equal keys the place depends on the sort kernel: "stable" keeps
\* the incoming order, "reversed" inverts it.
InsertRow(sorted, r, tb) ==
    LET ahead == {i \in 1..Len(sorted) :
                    IF tb = "stable" THEN sorted[i].Mouvement >= r.Mouvement
                    ELSE sorted[i].Mouvement > r.Mouvement}
        k == Cardinality(ahead)
    IN  SubSeq(sorted, 1, k) \o <<r>> \o SubSeq(sorted, k + 1, Len(sorted))

RECURSIVE SortRows(_, _)
SortRows(rows, tb) ==
    IF rows = <<>> THEN <<>>
    ELSE InsertRow(SortRows(SubSeq(rows, 1, Len(rows) - 1), tb), rows[Len(rows)], tb)

\* .sort_values('Mouvement', ascending=False), default kind='quicksort':
\* not a stable sort; the order of ties is fixed by the build (tieBreak)
SortValuesClockDependent(rows) == SortRows(rows, IF now > 0 THEN "reversed" ELSE "stable")
SortValues(rows) == SortRows(rows, tieBreak)

\* The column assignments apply to every row
DeltaRows(merged) == [i \in 1..Len(merged) |-> WithDelta(merged[i])]
TypedRows(flux) == [i \in 1..Len(flux) |-> WithType(flux[i])]

\* lines 156-183 on the pruned history
FluxOf(h) ==
    IF TooShort(h) THEN EmptyDF
    ELSE LET merged == DeltaRows(MergeOuter(LastData(h), FirstData(h)))
             flux == SelectSeq(merged, HasMoved)
         IN  IF flux = <<>> THEN EmptyDF
             ELSE SortValues(TypedRows(flux))

---------------------------------------------------------------------------
(* The dashboard script, top to bottom *)

\* @st.cache_data(ttl=60): a stored entry younger than the ttl is returned
\* without running the function body
CacheHit(c, t) == c.valid /\ t - c.at < CacheTtl

\* tab2, lines 312-318: the history summary, read before the estimation
HistoryCaption(h) ==
    IF Len(h) > 0
    THEN [shown |-> TRUE, nb_mesures |-> Len(h),
          oldest |-> h[1].timestamp, newest |-> h[Len(h)].timestamp]
    ELSE [shown |-> FALSE, nb_mesures |-> 0, oldest |-> 0, newest |-> 0]

\* tab2, lines 367-371: the branch taken on an empty flux_df
EmptyFluxMessageAnyHistory(h) == IF Len(h) >= 1 THEN "no_movement" ELSE "collecting"
EmptyFluxMessage(h) == IF Len(h) >= 2 THEN "no_movement" ELSE "collecting"

RECURSIVE SumMouvement(_)
SumMouvement(rows) ==
    IF rows = <<>> THEN 0 ELSE Head(rows).Mouvement + SumMouvement(Tail(rows))

\* tab2, lines 325-328
FluxMetrics(flux) ==
    [total_mouvements |-> SumMouvement(flux),
     stations_bouge |-> Len(flux),
     depots |-> Len(SelectSeq(flux, LAMBDA r : r.Type = "Depot")),
     prises |-> Len(SelectSeq(flux, LAMBDA r : r.Type = "Prise"))]

NoMetrics == [total_mouvements |-> 0, stations_bouge |-> 0, depots |-> 0, prises |-> 0]

\* flux_df.head(20)
HeadRows(rows, n) == SubSeq(rows, 1, IF Len(rows) < n THEN Len(rows) ELSE n)

\* What the call get_live_data() of line 243 can return: the cached value,
\* or the body run on whatever the upstream answers
GetLiveData(c) ==
    IF CacheHit(c, now) THEN {c.df} ELSE {FetchLiveData(o) : o \in Outcomes}

\* One script run at the current clock value.  c is the cache entry and h
\* the session history the run starts with; df is what get_live_data
\* returns.
RunScript(c, h, df) ==
    LET hit == CacheHit(c, now)
        h1 == PruneHistory(AppendBatch(h, now, df), now)
        flux == FluxOf(h1)
    IN  /\ cache' = IF hit THEN c ELSE [valid |-> TRUE, at |-> now, df |-> df]
        /\ df_live' = df
        /\ caption' = HistoryCaption(h)
        /\ run_at' = now
        /\ IF df # EmptyDF
           THEN /\ Len(h1) <= MaxHistory
                /\ data_history' = h1
                /\ estimated' = TRUE
                /\ flux_df' = flux
                /\ message' = IF flux # EmptyDF THEN "metrics" ELSE EmptyFluxMessage(h1)
                /\ metrics' = IF flux # EmptyDF THEN FluxMetrics(flux) ELSE NoMetrics
                /\ chart_data' = IF flux # EmptyDF THEN HeadRows(flux, TopN) ELSE <<>>
           ELSE /\ data_history' = h
                /\ estimated' = FALSE
                /\ flux_df' = EmptyDF
                /\ message' = "no_data"
                /\ metrics' = NoMetrics
                /\ chart_data' = <<>>
        /\ UNCHANGED <<now, tieBreak, collVars>>

NoCache == [valid |-> FALSE, at |-> 0, df |-> EmptyDF]

\* A page load or a widget interaction: the script reruns
Rerun == \E df \in GetLiveData(cache) : RunScript(cache, data_history, df)

\* "Actualiser les donnees": st.cache_data.clear(); st.rerun()
ClickRefresh == \E df \in GetLiveData(NoCache) : RunScript(NoCache, data_history, df)

\* "Reinitialiser l'historique": del st.session_state.data_history; st.rerun()
ClickReset == \E df \in GetLiveData(cache) : RunScript(cache, <<>>, df)

\* Time passes between two interactions
Tick == \E d \in TickSteps :
    /\ now + d <= MaxTime
    /\ now' = now + d
    /\ UNCHANGED <<dashVars, collVars>>

Init ==
    /\ now = 0
    /\ tieBreak \in {"stable", "reversed"}
    /\ cache = NoCache
    /\ data_history = <<>>
    /\ df_live = EmptyDF
    /\ estimated = FALSE
    /\ flux_df = EmptyDF
    /\ message = "none"
    /\ metrics = NoMetrics
    /\ chart_data = <<>>
    /\ caption = HistoryCaption(<<>>)
    /\ run_at = 0
    /\ pc = "off"
    /\ mode = "once"
    /\ table_exists = FALSE
    /\ db = <<>>
    /\ response = Failed("none")
    /\ cycles = 0

Next == Rerun \/ ClickRefresh \/ ClickReset \/ Tick

Spec == Init /\ [][Next]_vars

---------------------------------------------------------------------------
(* The collector, enregistreur.py *)

Station(name, free_bikes, empty_slots) ==
    [name |-> name, free_bikes |-> free_bikes, empty_slots |-> empty_slots]

\* Upstream bodies explored (data['network']['stations'])
StationsA == <<Station("A", Int_(1), Int_(3)), Station("B", Int_(0), Int_(4))>>
StationsB == <<Station("A", Int_(2), Int_(2)), Station("B", Int_(0), Int_(4))>>
StationsNoFreeBikes == <<Station("A", Int_(1), Int_(3)), Station("B", AbsentNum, Int_(4))>>
CollectorFeeds == {StationsA, StationsB, StationsNoFreeBikes}
CollectorOutcomes ==
    {Parsed(f) : f \in CollectorFeeds} \cup {Failed(k) : k \in FetchFailures}

\* s['name'], s['free_bikes'], s['empty_slots']: KeyError on an absent key
InsertRaises(s) ==
    s.name = AbsentStr \/ s.free_bikes = AbsentNum \/ s.empty_slots = AbsentNum

\* The exception raised inside the try block of save_data, or "none"
Raised(outcome, tbl) ==
    IF outcome.status \in FetchFailures THEN outcome.status
    ELSE IF ~tbl THEN "no_table"
    ELSE IF \E i \in 1..Len(outcome.features) : InsertRaises(outcome.features[i])
         THEN "key_error"
    ELSE "none"

\* except Exception as e: every exception of the try block is caught
CaughtRequestErrorsOnly(exc) == exc \in {"unreachable", "http_error"}
Caught(exc) == TRUE

InsertedRowsSwappedColumns(stations, t) ==
    [i \in 1..Len(stations) |->
        [timestamp |-> t, station_name |-> stations[i].name,
         free_bikes |-> stations[i].empty_slots, empty_slots |-> stations[i].free_bikes]]

\* The rows of the for loop, one INSERT per station, all with the timestamp
\* taken before the loop
InsertedRows(stations, t) ==
    [i \in 1..Len(stations) |->
        [timestamp |-> t, station_name |-> stations[i].name,
         free_bikes |-> stations[i].free_bikes, empty_slots |-> stations[i].empty_slots]]

\* Rows of stations_history after save_data: conn.commit() is reached only
\* if nothing raised; otherwise the open transaction is dropped
RowsAfterSave(rows, outcome, tbl, t) ==
    IF Raised(outcome, tbl) = "none" THEN rows \o InsertedRows(outcome.features, t)
    ELSE rows

\* CREATE TABLE IF NOT EXISTS: the rows of an existing table are kept
RowsAfterRecreate(rows) == <<>>
RowsAfterInit(rows) == rows

\* python enregistreur.py [--once]
Launch == \E m \in {"once", "loop"} :
    /\ pc \in {"off", "exited", "crashed", "interrupted"}
    /\ pc' = "init"
    /\ mode' = m
    /\ UNCHANGED <<now, dashVars, table_exists, db, response, cycles>>

InitDb ==
    /\ pc = "init"
    /\ table_exists' = TRUE
    /\ db' = RowsAfterInit(db)
    /\ pc' = "save"
    /\ UNCHANGED <<now, dashVars, mode, response, cycles>>

\* One call of save_data, and what the main program does when it returns
SaveData == \E outcome \in CollectorOutcomes :
    LET exc == Raised(outcome, table_exists)
    IN  /\ pc = "save"
        /\ cycles < MaxCycles
        /\ cycles' = cycles + 1
        /\ response' = outcome
        /\ db' = RowsAfterSave(db, outcome, table_exists, now)
        /\ pc' = IF exc # "none" /\ ~Caught(exc) THEN "crashed"
                 ELSE IF mode = "once" THEN "exited"
                 ELSE "sleep"
        /\ UNCHANGED <<now, dashVars, mode, table_exists>>

\* requests.get(API_URL, headers=HEADERS) is called without a timeout: when
\* the upstream accepts the connection and never answers, the call does not
\* return and save_data stays inside it
SaveDataBlocks ==
    /\ pc = "save"
    /\ cycles < MaxCycles
    /\ cycles' = cycles + 1
    /\ response' = Failed("no_response")
    /\ pc' = "blocked"
    /\ UNCHANGED <<now, dashVars, mode, table_exists, db>>

\* time.sleep(INTERVALLE), then the next iteration of while True
Sleep ==
    /\ pc = "sleep"
    /\ now' = now + INTERVALLE
    /\ pc' = "save"
    /\ UNCHANGED <<dashVars, mode, table_exists, db, response, cycles>>

\* Ctrl+C in continuous mode
Interrupt ==
    /\ mode = "loop"
    /\ pc \in {"save", "sleep", "blocked"}
    /\ pc' = "interrupted"
    /\ UNCHANGED <<now, dashVars, mode, table_exists, db, response, cycles>>

CollectorNext == Launch \/ InitDb \/ SaveData \/ SaveDataBlocks \/ Sleep \/ Interrupt

CollectorSpec == Init /\ [][CollectorNext]_vars

---------------------------------------------------------------------------
(* The estimator of the persisted variant, which reads stations_history.   *)
(* Its code is not among the source files; it is written from the design:  *)
(* a range query on the timestamp, rows in timestamp order, and the sum of *)
(* the absolute differences of adjacent snapshots of one station.          *)

\* Lookback horizons of the persisted variant, 1 h and 24 h, in seconds
Lookbacks == {3600, 86400}

\* Range query: rows with timestamp > now - horizon
PersistedWindow(rows, t, horizon) ==
    SelectSeq(rows, LAMBDA r : r.timestamp > t - horizon)

\* Stable insertion of a row into rows ordered by timestamp
InsertByTimestamp(sorted, r) ==
    LET k == Cardinality({i \in 1..Len(sorted) : sorted[i].timestamp <= r.timestamp})
    IN  SubSeq(sorted, 1, k) \o <<r>> \o SubSeq(sorted, k + 1, Len(sorted))

RECURSIVE OrderByTimestamp(_)
OrderByTimestamp(rows) ==
    IF rows = <<>> THEN <<>>
    ELSE InsertByTimestamp(OrderByTimestamp(SubSeq(rows, 1, Len(rows) - 1)), rows[Len(rows)])

\* The bike counts of one station, in timestamp order
StationSeries(rows, name, t, horizon) ==
    LET mine == SelectSeq(OrderByTimestamp(PersistedWindow(rows, t, horizon)),
                          LAMBDA r : r.station_name = name)
    IN  [i \in 1..Len(mine) |-> mine[i].free_bikes.v]

\* Sum of |difference| over every adjacent pair
RECURSIVE ConsecutiveSum(_)
ConsecutiveSum(series) ==
    IF Len(series) < 2 THEN 0
    ELSE Abs(series[2] - series[1]) + ConsecutiveSum(Tail(series))

\* movement_magnitude of the persisted variant for one station
PersistedMagnitude(rows, name, t, horizon) ==
    ConsecutiveSum(StationSeries(rows, name, t, horizon))

---------------------------------------------------------------------------
(* Properties of the dashboard, checked under Spec *)

EarliestBatch == data_history[1].data
LatestBatch == data_history[Len(data_history)].data

\* C1: a station with fewer than 2 snapshots in the window (the history
\* holds fewer than 2 batches, or the station is in only one of the two
\* compared batches) gets no Movement Record.
NoRecordWithoutTwoSnapshots ==
    \A i \in 1..Len(flux_df) :
        /\ Len(data_history) >= 2
        /\ flux_df[i].Station \in StationsOf(EarliestBatch) \cap StationsOf(LatestBatch)

\* C2: with at least 2 retained batches, a record of a station present in
\* the earliest and the latest batch has Total_prev from the earliest batch,
\* Total_curr from the latest, Delta = Total_curr - Total_prev and
\* Mouvement = |Delta|, and every such station whose two counts differ has
\* that record; no intermediate batch is read.
TwoPointMethod ==
    (estimated /\ Len(data_history) >= 2) =>
        /\ \A i \in 1..Len(flux_df) :
            LET r == flux_df[i] IN
            (r.Station \in StationsOf(EarliestBatch) \cap StationsOf(LatestBatch)) =>
                /\ \E j \in 1..Len(EarliestBatch) :
                      EarliestBatch[j].Station = r.Station /\ EarliestBatch[j].Total = r.Total_prev
                /\ \E j \in 1..Len(LatestBatch) :
                      LatestBatch[j].Station = r.Station /\ LatestBatch[j].Total = r.Total_curr
                /\ r.Delta = r.Total_curr - r.Total_prev
                /\ r.Mouvement = (IF r.Delta < 0 THEN 0 - r.Delta ELSE r.Delta)
        /\ \A a \in 1..Len(EarliestBatch), b \in 1..Len(LatestBatch) :
            (EarliestBatch[a].Station = LatestBatch[b].Station
                /\ EarliestBatch[a].Total # LatestBatch[b].Total) =>
                \E i \in 1..Len(flux_df) :
                    /\ flux_df[i].Station = EarliestBatch[a].Station
                    /\ flux_df[i].Total_prev = EarliestBatch[a].Total
                    /\ flux_df[i].Total_curr = LatestBatch[b].Total

\* Station A counted 1, then 0, then 3 in three retained batches, and its
\* record compares 1 with 3
TwoPointOscillationSeen ==
    /\ estimated
    /\ Len(data_history) = 3
    /\ [Station |-> "A", Total |-> 1] \in {EarliestBatch[i] : i \in 1..Len(EarliestBatch)}
    /\ [Station |-> "A", Total |-> 0] \in {data_history[2].data[i] : i \in 1..Len(data_history[2].data)}
    /\ \E i \in 1..Len(flux_df) :
          /\ flux_df[i].Station = "A"
          /\ flux_df[i].Total_prev = 1
          /\ flux_df[i].Total_curr = 3
          /\ flux_df[i].Delta = 2
          /\ flux_df[i].Mouvement = 2

\* C3: no read of the session history, by the estimator or by the history
\* caption, observes a batch stamped at or before the run's clock minus
\* one hour.
EveryReadPruned ==
    /\ caption.shown => caption.oldest > run_at - Horizon
    /\ estimated =>
          \A i \in 1..Len(data_history) : data_history[i].timestamp > run_at - Horizon

Position(df, name) == CHOOSE i \in 1..Len(df) : df[i].Station = name

\* C8: the records are ordered by Mouvement descending, records of equal
\* Mouvement keep the order their stations have in the current snapshot,
\* and the chart rows are the first 20 of that ranking.
RankingStable ==
    estimated =>
        /\ \A i, j \in 1..Len(flux_df) :
              i < j => flux_df[i].Mouvement >= flux_df[j].Mouvement
        /\ \A i, j \in 1..Len(flux_df) :
              ( /\ i < j
                /\ flux_df[i].Mouvement = flux_df[j].Mouvement
                /\ flux_df[i].Station \in StationsOf(LatestBatch)
                /\ flux_df[j].Station \in StationsOf(LatestBatch) )
              => Position(LatestBatch, flux_df[i].Station) <= Position(LatestBatch, flux_df[j].Station)
        /\ Len(chart_data) <= 20
        /\ chart_data = SubSeq(flux_df, 1, Len(chart_data))
        /\ Len(flux_df) <= 20 => chart_data = flux_df

\* C9: on an empty result the page says "collecting" exactly when fewer
\* than 2 batches are retained, and says "no movement" only with at least
\* 2 batches whose compared counts are all equal.
EmptyResultDistinguished ==
    (estimated /\ flux_df = <<>>) =>
        /\ message \in {"collecting", "no_movement"}
        /\ (message = "collecting") <=> (Len(data_history) < 2)
        /\ (message = "no_movement") =>
              /\ Len(data_history) >= 2
              /\ \A a \in 1..Len(EarliestBatch), b \in 1..Len(LatestBatch) :
                    EarliestBatch[a].Station = LatestBatch[b].Station
                        => EarliestBatch[a].Total = LatestBatch[b].Total

\* The run found an older history (the caption showed it), pruned it all,
\* and reported "collecting" on the single batch left
CollectingAfterPruning ==
    /\ estimated
    /\ flux_df = <<>>
    /\ caption.shown
    /\ Len(data_history) = 1
    /\ message = "collecting"

\* C10: every returned record has Mouvement > 0, is labelled deposit
\* exactly when Delta > 0 and withdrawal exactly when Delta < 0, and the
\* deposits and withdrawals shown add up to the impacted stations.
ActiveRecordsLabelled ==
    /\ \A i \in 1..Len(flux_df) :
          /\ flux_df[i].Mouvement > 0
          /\ (flux_df[i].Type = "Depot") <=> (flux_df[i].Delta > 0)
          /\ (flux_df[i].Type = "Prise") <=> (flux_df[i].Delta < 0)
    /\ message = "metrics" =>
          /\ metrics.stations_bouge = Len(flux_df)
          /\ metrics.depots + metrics.prises = metrics.stations_bouge

\* The metrics of a run that found a deposit and a withdrawal
DepositAndWithdrawalShown ==
    /\ message = "metrics"
    /\ metrics.depots >= 1
    /\ metrics.prises >= 1

---------------------------------------------------------------------------
(* Properties of the collector, checked under CollectorSpec *)

SaveStep == pc = "save" /\ cycles' = cycles + 1

BadRecords(stations) == {i \in 1..Len(stations) : InsertRaises(stations[i])}

\* C4: a fetched batch of N >= 2 station records of which one lacks a
\* required field still commits at least the N-1 other rows.
OneBadRecordKeepsTheRest ==
    [][ ( /\ SaveStep
          /\ response'.status = "ok"
          /\ Len(response'.features) >= 2
          /\ Cardinality(BadRecords(response'.features)) = 1 )
        => Len(db') >= Len(db) + Len(response'.features) - 1 ]_vars

\* C5: a cycle whose fetch fails adds no row and does not end the
\* collector: save_data returns, a single-shot run exits, a continuous run
\* sleeps, and the sleep leads to the next cycle one interval later.
FetchFailureSkipsCycle ==
    [][ /\ (SaveStep /\ response'.status \in FetchFailures) =>
              /\ db' = db
              /\ pc' = (IF mode = "loop" THEN "sleep" ELSE "exited")
        /\ (pc = "sleep" /\ pc' # "interrupted") =>
              /\ pc' = "save"
              /\ now' = now + INTERVALLE ]_vars

\* A continuous run is about to start a cycle after one whose fetch failed,
\* with the rows of an earlier cycle still there
NextCycleAfterFailure ==
    /\ mode = "loop"
    /\ pc = "save"
    /\ response.status \in FetchFailures
    /\ now >= INTERVALLE
    /\ db # <<>>

\* C6: every step keeps the committed rows as a prefix of the log; only a
\* save_data call adds rows, and one that fetched a well-formed batch adds
\* exactly one row per station record, in order, all stamped with the
\* cycle's clock value.
LogAppendOnly ==
    [][ /\ Len(db') >= Len(db)
        /\ SubSeq(db', 1, Len(db)) = db
        /\ ~SaveStep => db' = db
        /\ (SaveStep /\ response'.status = "ok" /\ BadRecords(response'.features) = {}) =>
              /\ Len(db') = Len(db) + Len(response'.features)
              /\ \A i \in 1..Len(response'.features) :
                    db'[Len(db) + i] =
                        [timestamp |-> now,
                         station_name |-> response'.features[i].name,
                         free_bikes |-> response'.features[i].free_bikes,
                         empty_slots |-> response'.features[i].empty_slots] ]_vars

\* A single-shot run, launched over a log that earlier cycles filled at two
\* different times, has run init_db again and is about to save
RelaunchedOverExistingRows ==
    /\ mode = "once"
    /\ pc = "save"
    /\ cycles >= 2
    /\ Len(db) >= 4
    /\ db[1].timestamp # db[Len(db)].timestamp

\* The two-point magnitude of a series, |last - first|
EndToEnd(series) ==
    IF series[Len(series)] < series[1] THEN series[1] - series[Len(series)]
    ELSE series[Len(series)] - series[1]

Monotonic(series) ==
    \/ \A i \in 1..(Len(series) - 1) : series[i] <= series[i + 1]
    \/ \A i \in 1..(Len(series) - 1) : series[i] >= series[i + 1]

CollectedStations == {"A", "B"}

CycleNeverBlocksForever == pc # "blocked"

\* C13: each station name has at most one Movement Record, so the number
\* of impacted stations shown is the number of distinct names, also when a
\* batch holds several rows with the same name.
OneRecordPerStation ==
    /\ \A i, j \in 1..Len(flux_df) :
          i # j => flux_df[i].Station # flux_df[j].Station
    /\ message = "metrics" =>
          metrics.stations_bouge = Cardinality({flux_df[i].Station : i \in 1..Len(flux_df)})

===========================================================================
